---- MODULE Spec2Model ----
(***************************************************************************)
(* SSPI -- Student Stress & Performance Insights (streamlit_app.py).       *)
(*                                                                         *)
(* The scoring rules (perf_component, stress_component, weighted_score,    *)
(* traffic_light, build_recommendation) are operators; a script run of one *)
(* of the two pages and a call of a scoring function are actions.          *)
(*                                                                         *)
(* Numbers.  A Python float is held in fixed point: the integer n stands   *)
(* for n / SCALE.  Fractions in [0, 1] (the argument of np.clip(., 0, 1),  *)
(* the value of np.exp) are held finer, at EXPSCALE = 100 * SCALE.  The    *)
(* not-a-number float is the value NaN, which every arithmetic operator    *)
(* propagates as IEEE arithmetic does.  The quotient of weighted_score is  *)
(* held exactly, as a reduced fraction of two integers.                    *)
(***************************************************************************)
EXTENDS Integers, Sequences, FiniteSets, TLC

VARIABLES session_state, page, call, hist

vars == <<session_state, page, call, hist>>

-----------------------------------------------------------------------------
(* Floats *)

NaN == -1000000000

SCALE == 300

EXPSCALE == 100 * SCALE

\* the float literal n
F(n) == n * SCALE

\* the float literal n / 2 (3.0 = Half(6), 9.5 = Half(19))
Half(n) == (n * SCALE) \div 2

IsNaN(x) == x = NaN

Sub(a, b) == IF IsNaN(a) \/ IsNaN(b) THEN NaN ELSE a - b

Abs(a) == IF IsNaN(a) THEN NaN ELSE IF a < 0 THEN 0 - a ELSE a

\* num / den, both at SCALE, as a fraction at EXPSCALE
Frac(num, den) == IF IsNaN(num) THEN NaN ELSE (num * EXPSCALE) \div den

\* 1 - q for a fraction q at EXPSCALE
OneMinus(q) == IF IsNaN(q) THEN NaN ELSE EXPSCALE - q

\* 100 * q: a fraction at EXPSCALE to a score at SCALE
Times100(q) == IF IsNaN(q) THEN NaN ELSE (100 * q * SCALE) \div EXPSCALE

\* np.clip(x, lo, hi): NaN stays NaN
np_clip(x, lo, hi) ==
    IF IsNaN(x) THEN NaN
    ELSE IF x < lo THEN lo
    ELSE IF x > hi THEN hi
    ELSE x

\* the alternating series 1 - x + x^2/2! - ... continued from its n-th term
RECURSIVE ExpSeries(_, _, _, _)
ExpSeries(x, n, term, acc) ==
    LET next == (term * x) \div (n * EXPSCALE)
    IN  IF next = 0 THEN acc
        ELSE ExpSeries(x, n + 1, next,
                       IF n % 2 = 1 THEN acc - next ELSE acc + next)

\* exp(-x) for x >= 0, both at EXPSCALE: exp(-x) = exp(-x/2)^2 above 1/2
RECURSIVE ExpNeg(_)
ExpNeg(x) ==
    IF x > EXPSCALE \div 2
    THEN LET h == ExpNeg(x \div 2) IN (h * h) \div EXPSCALE
    ELSE ExpSeries(x, 1, EXPSCALE, EXPSCALE)

\* np.exp(x); every argument the program passes is -(d**2)/(2*sigma**2) <= 0
np_exp(x) == IF IsNaN(x) THEN NaN ELSE ExpNeg(0 - x)

\* -((value - opt)**2) / den, den at SCALE, the result at EXPSCALE
NegSqOver(value, opt, den) ==
    IF IsNaN(value) THEN NaN
    ELSE LET d == value - opt
         IN  0 - ((d * d * (EXPSCALE \div SCALE)) \div den)

\* 2*(1.5**2) and 2*(1.0**2)
TwoSigmaSqStudy == (2 * 3 * 3 * SCALE) \div 4

TwoSigmaSqSleep == 2 * 1 * 1 * SCALE

-----------------------------------------------------------------------------
(* Simple Model / Rules *)

Keys == {"StudyHours", "SleepHours", "Attendance", "ClassSize",
         "SchoolSupport", "Workload"}

OPT == [StudyHours |-> Half(6), SleepHours |-> Half(19), ClassSize |-> F(28)]

\* variant: CLIP without the clamp
CLIPNoClamp(x) == x

CLIP(x) == np_clip(x, F(0), F(100))

\* variant: perf_component taking Workload as it is, as it takes Attendance
perf_componentWorkloadRaw(v) ==
    LET sh == Times100(np_exp(NegSqOver(v.StudyHours, OPT.StudyHours, TwoSigmaSqStudy)))
        sl == Times100(np_exp(NegSqOver(v.SleepHours, OPT.SleepHours, TwoSigmaSqSleep)))
        at == v.Attendance
        cs == Times100(OneMinus(np_clip(
                  Frac(Sub(v.ClassSize, F(15)), F(45) - F(15)), 0, EXPSCALE)))
        sp == v.SchoolSupport
        wl == v.Workload
    IN  [StudyHours |-> CLIP(sh), SleepHours |-> CLIP(sl), Attendance |-> CLIP(at),
         ClassSize |-> CLIP(cs), SchoolSupport |-> CLIP(sp), Workload |-> CLIP(wl)]

perf_component(v) ==
    LET sh == Times100(np_exp(NegSqOver(v.StudyHours, OPT.StudyHours, TwoSigmaSqStudy)))
        sl == Times100(np_exp(NegSqOver(v.SleepHours, OPT.SleepHours, TwoSigmaSqSleep)))
        at == v.Attendance
        cs == Times100(OneMinus(np_clip(
                  Frac(Sub(v.ClassSize, F(15)), F(45) - F(15)), 0, EXPSCALE)))
        sp == v.SchoolSupport
        wl == Times100(OneMinus(Frac(v.Workload, F(100))))
    IN  [StudyHours |-> CLIP(sh), SleepHours |-> CLIP(sl), Attendance |-> CLIP(at),
         ClassSize |-> CLIP(cs), SchoolSupport |-> CLIP(sp), Workload |-> CLIP(wl)]

stress_component(v) ==
    LET sh == Times100(OneMinus(
                  np_exp(NegSqOver(v.StudyHours, OPT.StudyHours, TwoSigmaSqStudy))))
        sl == Times100(OneMinus(np_clip(
                  Frac(Abs(Sub(v.SleepHours, OPT.SleepHours)), F(2)), 0, EXPSCALE)))
        at == v.Attendance
        cs == Times100(OneMinus(np_clip(
                  Frac(Sub(v.ClassSize, F(15)), F(45) - F(15)), 0, EXPSCALE)))
        sp == v.SchoolSupport
        wl == Times100(OneMinus(Frac(v.Workload, F(100))))
        study_good == CLIP(Sub(F(100), sh))
    IN  [StudyHours |-> study_good, SleepHours |-> CLIP(sl), Attendance |-> CLIP(at),
         ClassSize |-> CLIP(cs), SchoolSupport |-> CLIP(sp), Workload |-> CLIP(wl)]

\* a weight w, held in tenths (0.6 = 6, the page's weight 1 = W(1))
WEIGHTSCALE == 10

W(n) == n * WEIGHTSCALE

RECURSIVE Gcd(_, _)
Gcd(a, b) == IF b = 0 THEN a ELSE Gcd(b, a % b)

\* the float num / den (den # 0): a reduced fraction with a positive denominator
Rat(num, den) ==
    LET n == IF den < 0 THEN 0 - num ELSE num
        d == IF den < 0 THEN 0 - den ELSE den
        g == Gcd(IF n < 0 THEN 0 - n ELSE n, d)
    IN  [num |-> n \div g, den |-> d \div g]

RatLess(a, b) == a.num * b.den < b.num * a.den

RatGeq(a, b) == ~RatLess(a, b)

\* Python's min(a, b): b when b < a, else a
py_min(a, b) == IF RatLess(b, a) THEN b ELSE a

\* sum(f[k] for k in S)
RECURSIVE py_sum(_, _)
py_sum(f, S) ==
    IF S = {} THEN 0
    ELSE LET k == CHOOSE x \in S : TRUE
         IN  f[k] + py_sum(f, S \ {k})

Return(x) == [kind |-> "return", value |-> x]

Raise(e) == [kind |-> "raise", exc |-> e]

\* variant: weighted_score summing over every name of c, weight 1 when unnamed
weighted_scoreAllOfC(c, weights) ==
    IF \E k \in DOMAIN weights : k \notin DOMAIN c
    THEN Raise("KeyError")
    ELSE LET total == py_sum(weights, DOMAIN weights)
         IN  IF total = 0 THEN Raise("ZeroDivisionError")
             ELSE Return(Rat(py_sum([k \in DOMAIN c |->
                                 c[k] * (IF k \in DOMAIN weights THEN weights[k] ELSE W(1))],
                             DOMAIN c), total))

\* variant: weighted_score dividing by len(weights)
weighted_scoreByCount(c, weights) ==
    IF \E k \in DOMAIN weights : k \notin DOMAIN c
    THEN Raise("KeyError")
    ELSE LET count == Cardinality(DOMAIN weights) * W(1)
         IN  IF count = 0 THEN Raise("ZeroDivisionError")
             ELSE Return(Rat(py_sum([k \in DOMAIN weights |-> c[k] * weights[k]],
                             DOMAIN weights), count))

\* c[k] of a missing k raises KeyError while the numerator is summed; the
\* division by sum(weights.values()) comes after it
weighted_score(c, weights) ==
    IF \E k \in DOMAIN weights : k \notin DOMAIN c
    THEN Raise("KeyError")
    ELSE LET total == py_sum(weights, DOMAIN weights)
         IN  IF total = 0 THEN Raise("ZeroDivisionError")
             ELSE Return(Rat(py_sum([k \in DOMAIN weights |-> c[k] * weights[k]],
                             DOMAIN weights), total))

traffic_light(score) ==
    IF RatGeq(score, Rat(F(75), 1)) THEN "Baik"
    ELSE IF RatGeq(score, Rat(F(50), 1)) THEN "Perlu Perhatian"
    ELSE "Risiko Tinggi"

\* the sentences appended to s, each named by the factor it is about
build_recommendation(vals) ==
    LET s == (IF vals.SleepHours < Half(17) THEN <<"tidur">> ELSE << >>)
             \o (IF vals.Workload > F(70) THEN <<"beban">> ELSE << >>)
             \o (IF vals.ClassSize > F(35) THEN <<"kelas">> ELSE << >>)
             \o (IF vals.SchoolSupport < F(60) THEN <<"dukungan">> ELSE << >>)
             \o (IF vals.StudyHours < F(2) THEN <<"belajar">> ELSE << >>)
             \o (IF vals.Attendance < F(90) THEN <<"kehadiran">> ELSE << >>)
    IN  IF s = << >> THEN <<"seimbang">> ELSE s

-----------------------------------------------------------------------------
(* The session store and the two pages *)

None == [tag |-> "None"]

EmptyStore == [k \in {} |-> None]

\* dict.setdefault(k, d): k keeps its value when it has one
setdefault(s, k, d) ==
    IF k \in DOMAIN s THEN s
    ELSE [x \in DOMAIN s \cup {k} |-> IF x = k THEN d ELSE s[x]]

\* lines 19-20, run at the top of every script run
AppConfig(s) == setdefault(setdefault(s, "VERSION", "v2.0-forecast"), "sspi_data", None)

\* st.session_state[k] = x
setitem(s, k, x) == [y \in DOMAIN s \cup {k} |-> IF y = k THEN x ELSE s[y]]

\* st.session_state.get(k)
get(s, k) == IF k \in DOMAIN s THEN s[k] ELSE None

\* {k: 1 for k in d}
UnitWeights(d) == [k \in DOMAIN d |-> W(1)]

NoPage == [section |-> "none", rendered |-> << >>]

\* the footer below both sections (lines 400-401)
Footer == <<"footer">>

\* variant: Input & Hasil without lines 241-244
InputHasilNoPersist(store, sliders) ==
    LET vals == [StudyHours |-> sliders.study, SleepHours |-> sliders.sleep,
                 Attendance |-> F(sliders.attend), ClassSize |-> F(sliders.classsize),
                 SchoolSupport |-> F(sliders.support), Workload |-> F(sliders.workload)]
        perf == perf_component(vals)
        stress == stress_component(vals)
        weights == UnitWeights(vals)
        perf_score == weighted_score(perf, weights).value
        stress_score == weighted_score(stress, weights).value
        overall == py_min(perf_score, stress_score)
    IN  [store |-> store,
         page  |-> [section |-> "Input & Hasil",
                    rendered |-> <<"sliders", "kpi", "gauge">> \o Footer,
                    kpi |-> [perf_score |-> perf_score, stress_score |-> stress_score,
                             label |-> traffic_light(overall)],
                    gauge |-> overall]]

\* SECTION -- Input & Hasil (lines 202-278): the store and the page after it
InputHasil(store, sliders) ==
    LET vals == [StudyHours |-> sliders.study, SleepHours |-> sliders.sleep,
                 Attendance |-> F(sliders.attend), ClassSize |-> F(sliders.classsize),
                 SchoolSupport |-> F(sliders.support), Workload |-> F(sliders.workload)]
        perf == perf_component(vals)
        stress == stress_component(vals)
        weights == UnitWeights(vals)
        perf_score == weighted_score(perf, weights).value
        stress_score == weighted_score(stress, weights).value
        overall == py_min(perf_score, stress_score)
    IN  [store |-> setitem(store, "sspi_data",
                       [vals |-> vals, perf |-> perf, stress |-> stress,
                        perf_score |-> perf_score, stress_score |-> stress_score,
                        overall |-> overall]),
         page  |-> [section |-> "Input & Hasil",
                    rendered |-> <<"sliders", "kpi", "gauge">> \o Footer,
                    kpi |-> [perf_score |-> perf_score, stress_score |-> stress_score,
                             label |-> traffic_light(overall)],
                    gauge |-> overall]]

\* np.linspace(lo, hi, n), lo and hi whole numbers
linspace(lo, hi, n) == [i \in 1..n |-> F(lo) + ((i - 1) * (F(hi) - F(lo))) \div (n - 1)]

\* the selectbox labels (the dash of "0-100" written in ASCII)
Factors == {"Jam Tidur / Hari", "Jam Belajar / Hari", "Kehadiran (%)", "Ukuran Kelas",
            "Dukungan Sekolah (0-100)", "Beban Tugas (0-100)"}

key_map(factor) ==
    CASE factor = "Jam Belajar / Hari" -> [var_key |-> "StudyHours", grid |-> linspace(0, 8, 33)]
      [] factor = "Jam Tidur / Hari" -> [var_key |-> "SleepHours", grid |-> linspace(6, 11, 26)]
      [] factor = "Kehadiran (%)" -> [var_key |-> "Attendance", grid |-> linspace(50, 100, 26)]
      [] factor = "Ukuran Kelas" -> [var_key |-> "ClassSize", grid |-> linspace(15, 45, 31)]
      [] factor = "Dukungan Sekolah (0-100)" -> [var_key |-> "SchoolSupport", grid |-> linspace(0, 100, 26)]
      [] factor = "Beban Tugas (0-100)" -> [var_key |-> "Workload", grid |-> linspace(0, 100, 26)]

\* variant: the loop body writing into vals itself (v = vals, no copy)
ExplorerStepAliased(h, var_key, g) ==
    LET v == [h.vals EXCEPT ![var_key] = g]
    IN  [vals |-> v,
         base |-> h.base,
         perf_list |-> Append(h.perf_list, weighted_score(perf_component(v), UnitWeights(v)).value),
         stress_list |-> Append(h.stress_list, weighted_score(stress_component(v), UnitWeights(v)).value)]

\* one pass of the loop body (lines 358-361) over the objects it can reach:
\* vals is the dict held in the store, base the copy of it made before the loop
ExplorerStep(h, var_key, g) ==
    LET v == [h.base EXCEPT ![var_key] = g]
    IN  [vals |-> h.vals,
         base |-> h.base,
         perf_list |-> Append(h.perf_list, weighted_score(perf_component(v), UnitWeights(v)).value),
         stress_list |-> Append(h.stress_list, weighted_score(stress_component(v), UnitWeights(v)).value)]

\* for g in grid (lines 357-361), from grid[i] on
RECURSIVE ExplorerLoop(_, _, _, _)
ExplorerLoop(h, var_key, grid, i) ==
    IF i > Len(grid) THEN h
    ELSE ExplorerLoop(ExplorerStep(h, var_key, grid[i]), var_key, grid, i + 1)

\* SECTION -- Evaluasi & Saran (lines 283-395): the store and the page after it
EvaluasiSaran(store, factor) ==
    LET data == get(store, "sspi_data")
    IN  IF data = None
        THEN \* st.info(...); st.stop(): nothing below is rendered, the footer neither
             [store |-> store,
              page  |-> [section |-> "Evaluasi & Saran", rendered |-> <<"info">>]]
        ELSE LET vals == data.vals
                 perf == data.perf
                 stress == data.stress
                 km == key_map(factor)
                 h == ExplorerLoop([vals |-> vals, base |-> vals,
                                    perf_list |-> << >>, stress_list |-> << >>],
                                   km.var_key, km.grid, 1)
             IN  [store |-> setitem(store, "sspi_data", [data EXCEPT !.vals = h.vals]),
                  page  |-> [section |-> "Evaluasi & Saran",
                             rendered |-> <<"radar", "bar", "sensitivity", "saran",
                                            "references">> \o Footer,
                             vals |-> vals, perf |-> perf, stress |-> stress,
                             factor |-> factor,
                             perf_list |-> h.perf_list, stress_list |-> h.stress_list,
                             paragraph |-> build_recommendation(h.vals)]]

-----------------------------------------------------------------------------
(* Inputs *)

\* how many sliders of a run stand away from their default position
MaxMoved == 1

\* how many metrics of a probed call differ from the default metrics
MaxOff == 2

\* how many indicator names the probed weighted_score calls draw on
NumNames == 2

\* the sliders' default positions (lines 206-222); the two float sliders give
\* floats, the four integer sliders whole numbers
SliderDefault ==
    [study |-> Half(6), sleep |-> Half(19), attend |-> 95, classsize |-> 28,
     support |-> 70, workload |-> 50]

\* each slider at its default or at either end of its range, the two float
\* sliders also at a position in between
SliderPositions ==
    [study : {F(0), Half(6), Half(11), F(8)}, sleep : {F(6), F(8), Half(19), F(11)},
     attend : {50, 95, 100}, classsize : {15, 28, 45},
     support : {0, 70, 100}, workload : {0, 50, 100}]

SliderSettings ==
    {s \in SliderPositions :
        Cardinality({k \in DOMAIN SliderDefault : s[k] # SliderDefault[k]}) <= MaxMoved}

\* vals of a run (lines 225-232)
ValsOf(sliders) ==
    [StudyHours |-> sliders.study, SleepHours |-> sliders.sleep,
     Attendance |-> F(sliders.attend), ClassSize |-> F(sliders.classsize),
     SchoolSupport |-> F(sliders.support), Workload |-> F(sliders.workload)]

DefaultVals == ValsOf(SliderDefault)

\* metrics a caller may pass: undefined, below, at the ends of and above the range
ProbeSets ==
    [StudyHours |-> {NaN, F(-1), F(0), Half(6), Half(9), F(10)},
     SleepHours |-> {NaN, F(4), Half(15), Half(19), Half(23), F(13)},
     Attendance |-> {NaN, F(-10), F(0), F(95), F(100), F(120)},
     ClassSize |-> {NaN, F(10), F(15), F(28), F(45), F(60)},
     SchoolSupport |-> {NaN, F(-10), F(0), F(70), F(100), F(120)},
     Workload |-> {NaN, F(-20), F(0), F(50), F(100), F(150)}]

ProbeMetrics ==
    [StudyHours : ProbeSets.StudyHours, SleepHours : ProbeSets.SleepHours,
     Attendance : ProbeSets.Attendance, ClassSize : ProbeSets.ClassSize,
     SchoolSupport : ProbeSets.SchoolSupport, Workload : ProbeSets.Workload]

ProbeVals ==
    {v \in ProbeMetrics : Cardinality({k \in Keys : v[k] # DefaultVals[k]}) <= MaxOff}

NamePool == <<"A", "B", "C", "D">>

Names == {NamePool[i] : i \in 1..NumNames}

SubScores == {F(0), F(50), F(80), F(120)}

Weights == {0 - 6, 0, 4, 6, 20}

Mappings(range) == UNION {[D -> range] : D \in SUBSET Names}

\* weighted_score calls: arbitrary mappings, and the calls the page makes
ScoreArgs ==
    {[c |-> c, weights |-> w] : c \in Mappings(SubScores), w \in Mappings(Weights)}
    \cup {[c |-> perf_component(ValsOf(s)), weights |-> UnitWeights(ValsOf(s))] :
             s \in SliderSettings}
    \cup {[c |-> stress_component(ValsOf(s)), weights |-> UnitWeights(ValsOf(s))] :
             s \in SliderSettings}

-----------------------------------------------------------------------------
(* Calls of the scoring functions *)

NoCall == [fn |-> "none", status |-> "idle"]

Pending(fn, args) == [fn |-> fn, args |-> args, status |-> "pending"]

\* variant: build_recommendation reading the stored vals when there are some
CoreCallReadsStore(fn, args, store) ==
    [ret |-> CASE fn = "perf_component" -> Return(perf_component(args))
               [] fn = "stress_component" -> Return(stress_component(args))
               [] fn = "weighted_score" -> weighted_score(args.c, args.weights)
               [] fn = "traffic_light" -> Return(traffic_light(args))
               [] fn = "build_recommendation" ->
                    Return(build_recommendation(
                        IF "sspi_data" \in DOMAIN store /\ store["sspi_data"] # None
                        THEN store["sspi_data"].vals ELSE args)),
     args |-> args,
     store |-> store]

\* a call of one of the functions of lines 130-175 in a session whose store is
\* `store`: what it returns or raises, its argument and the store afterwards
CoreCall(fn, args, store) ==
    [ret |-> CASE fn = "perf_component" -> Return(perf_component(args))
               [] fn = "stress_component" -> Return(stress_component(args))
               [] fn = "weighted_score" -> weighted_score(args.c, args.weights)
               [] fn = "traffic_light" -> Return(traffic_light(args))
               [] fn = "build_recommendation" -> Return(build_recommendation(args)),
     args |-> args,
     store |-> store]

\* the pending call runs to its end
Invoke ==
    /\ call.status = "pending"
    /\ LET r == CoreCall(call.fn, call.args, session_state)
       IN  /\ call' = [fn |-> call.fn, args |-> call.args, status |-> "returned",
                       ret |-> r.ret, args_after |-> r.args,
                       store_before |-> session_state]
           /\ session_state' = r.store
    /\ UNCHANGED <<page, hist>>

Call_perf_component ==
    /\ call.fn = "perf_component"
    /\ Invoke

Call_stress_component ==
    /\ call.fn = "stress_component"
    /\ Invoke

Call_weighted_score ==
    /\ call.fn = "weighted_score"
    /\ Invoke

Call_traffic_light ==
    /\ call.fn = "traffic_light"
    /\ Invoke

Call_build_recommendation ==
    /\ call.fn = "build_recommendation"
    /\ Invoke

-----------------------------------------------------------------------------
(* Script runs *)

\* a run with "Input & Hasil" selected and the sliders at some positions; the
\* radio's selection and the widgets' positions are the inputs of a run
RunInputHasil ==
    \E sliders \in SliderSettings :
        LET r == InputHasil(AppConfig(session_state), sliders)
        IN  /\ session_state' = r.store
            /\ page' = r.page
            /\ hist' = [sliders |-> sliders]
            /\ UNCHANGED call

\* a run with "Evaluasi & Saran" selected and some factor in the selectbox
RunEvaluasiSaran ==
    \E factor \in Factors :
        LET r == EvaluasiSaran(AppConfig(session_state), factor)
        IN  /\ session_state' = r.store
            /\ page' = r.page
            /\ UNCHANGED <<call, hist>>

\* a new session: an empty store, nothing rendered; hist remembers the sliders
\* of the latest "Input & Hasil" run
Init ==
    /\ session_state = EmptyStore
    /\ page = NoPage
    /\ call = NoCall
    /\ hist = None

Next == RunInputHasil \/ RunEvaluasiSaran

Spec == Init /\ [][Next]_vars

\* perf_component and stress_component applied to probed metrics
InitComp ==
    /\ session_state = AppConfig(EmptyStore)
    /\ page = NoPage
    /\ hist = None
    /\ call \in {Pending(fn, v) : fn \in {"perf_component", "stress_component"},
                                  v \in ProbeVals}

NextComp == Call_perf_component \/ Call_stress_component

SpecComp == InitComp /\ [][NextComp]_vars

\* weighted_score applied to probed mappings
InitScore ==
    /\ session_state = AppConfig(EmptyStore)
    /\ page = NoPage
    /\ hist = None
    /\ call \in {Pending("weighted_score", a) : a \in ScoreArgs}

NextScore == Call_weighted_score

SpecScore == InitScore /\ [][NextScore]_vars

\* session stores a call may find: a fresh session's, and those left by a run
\* of "Input & Hasil"
SampleStores ==
    {AppConfig(EmptyStore)}
    \cup {InputHasil(AppConfig(EmptyStore), s).store : s \in SliderSettings}

FrameVals ==
    {v \in ProbeVals : Cardinality({k \in Keys : v[k] # DefaultVals[k]}) <= 1}

FrameCalls ==
    {Pending(fn, v) : fn \in {"perf_component", "stress_component",
                              "build_recommendation"},
                      v \in {x \in FrameVals : \A k \in Keys : ~IsNaN(x[k])}}
    \cup {Pending("weighted_score", a) :
             a \in {x \in ScoreArgs : \A k \in DOMAIN x.c : x.c[k] = F(80)}}
    \cup {Pending("traffic_light", Rat(n, 2)) : n \in {F(0), F(99), F(100), F(149), F(150), F(200)}}

\* every scoring function called in sampled session states
InitFrame ==
    /\ session_state \in SampleStores
    /\ page = NoPage
    /\ hist = None
    /\ call \in FrameCalls

NextFrame ==
    \/ Call_perf_component
    \/ Call_stress_component
    \/ Call_weighted_score
    \/ Call_traffic_light
    \/ Call_build_recommendation

SpecFrame == InitFrame /\ [][NextFrame]_vars

-----------------------------------------------------------------------------
(* Claims *)

Returned(fns) == call.status = "returned" /\ call.fn \in fns

Components == {"perf_component", "stress_component"}

InRange(x) == 0 <= x /\ x <= F(100)

RatInRange(r) == RatGeq(r, Rat(0, 1)) /\ RatGeq(Rat(F(100), 1), r)

\* sum(c[k] * weights[k] for k in weights), for weights within c
WeightedSum(c, weights) == py_sum([k \in DOMAIN weights |-> c[k] * weights[k]], DOMAIN weights)

\* C1: when every name of weights occurs in c and the weights do not sum to
\* zero, weighted_score returns sum(c[k]*weights[k]) / sum(weights), and the
\* entries of c that weights does not name change nothing.
C1_WeightedAverage ==
    Returned({"weighted_score"}) =>
        LET c == call.args.c
            w == call.args.weights
            total == py_sum(w, DOMAIN w)
        IN  (DOMAIN w \subseteq DOMAIN c /\ total # 0) =>
                /\ call.ret.kind = "return"
                /\ call.ret.value.num * total = call.ret.value.den * WeightedSum(c, w)
                /\ call.ret = weighted_score([k \in DOMAIN w |-> c[k]], w)

C1_Witness ==
    /\ Returned({"weighted_score"})
    /\ call.ret.kind = "return"
    /\ call.args.weights = [k \in {"A"} |-> 6]
    /\ call.args.c = [k \in {"A", "B"} |-> IF k = "A" THEN F(80) ELSE F(50)]
    /\ call.ret.value = Rat(F(80), 1)

\* C2: when the weights sum to zero the call does not fail: the total is
\* taken as 1 and a composite score is returned.
C2_ZeroTotalFallback ==
    Returned({"weighted_score"}) =>
        LET c == call.args.c
            w == call.args.weights
        IN  (DOMAIN w \subseteq DOMAIN c /\ py_sum(w, DOMAIN w) = 0) =>
                /\ call.ret.kind = "return"
                /\ call.ret.value = Rat(WeightedSum(c, w), 1)

\* C3: an undefined (NaN) metric gives the sub-score 0 for its indicator in
\* perf_component and stress_component; the call does not raise and no
\* returned sub-score is NaN.
C3_UndefinedScoresZero ==
    Returned(Components) =>
        /\ call.ret.kind = "return"
        /\ \A k \in Keys :
              /\ IsNaN(call.args[k]) => call.ret.value[k] = F(0)
              /\ ~IsNaN(call.ret.value[k])

\* C4: a name of weights with no entry in c makes weighted_score fail with a
\* ConfigurationError, and that is the only error it raises.
C4_ConfigurationError ==
    Returned({"weighted_score"}) =>
        LET missing == \E k \in DOMAIN call.args.weights : k \notin DOMAIN call.args.c
        IN  /\ missing => call.ret = Raise("ConfigurationError")
            /\ call.ret.kind = "raise" => (missing /\ call.ret.exc = "ConfigurationError")

\* C5: every sub-score perf_component and stress_component return for a
\* defined metric lies in [0, 100], also for metrics outside the slider ranges.
C5_SubScoresBounded ==
    Returned(Components) =>
        \A k \in Keys : ~IsNaN(call.args[k]) => InRange(call.ret.value[k])

C5_Witness ==
    /\ Returned(Components)
    /\ call.args.Attendance = F(120)
    /\ call.args.Workload = F(150)
    /\ call.ret.value.Attendance = F(100)
    /\ call.ret.value.Workload = F(0)

Benchmarks ==
    [ClassSize |-> [ideal |-> F(15), worst |-> F(45), higher |-> FALSE],
     Workload |-> [ideal |-> F(0), worst |-> F(100), higher |-> FALSE],
     Attendance |-> [ideal |-> F(100), worst |-> F(0), higher |-> TRUE],
     SchoolSupport |-> [ideal |-> F(100), worst |-> F(0), higher |-> TRUE]]

\* clamp((value - worst)/(ideal - worst), 0, 1) * 100, or its mirror image
ClampedLinear(value, b) ==
    Times100(np_clip(IF b.higher THEN Frac(value - b.worst, b.ideal - b.worst)
                     ELSE Frac(b.worst - value, b.worst - b.ideal), 0, EXPSCALE))

Component(fn, v) == IF fn = "perf_component" THEN perf_component(v) ELSE stress_component(v)

\* the defined metrics probed for indicator k
ProbesOf(k) == ProbeSets[k] \ {NaN}

\* C7: in both components ClassSize (ideal 15, worst 45) and Workload (ideal
\* 0, worst 100) follow the clamped linear LowerIsBetter mapping: non-increasing
\* in the value, 100 at or below ideal, 0 at or above worst; Attendance and
\* SchoolSupport (ideal 100, worst 0) follow the HigherIsBetter mapping and
\* are non-decreasing in the value.
C7_ClampedLinear ==
    Returned(Components) =>
        \A k \in DOMAIN Benchmarks :
            LET b == Benchmarks[k]
                x == call.args[k]
                y == call.ret.value[k]
            IN  ~IsNaN(x) =>
                    /\ y = ClampedLinear(x, b)
                    /\ ~b.higher /\ x <= b.ideal => y = F(100)
                    /\ ~b.higher /\ x >= b.worst => y = F(0)
                    /\ \A x2 \in ProbesOf(k) :
                          LET y2 == Component(call.fn, [call.args EXCEPT ![k] = x2])[k]
                          IN  x2 >= x => IF b.higher THEN y2 >= y ELSE y2 <= y

C7_Witness ==
    /\ Returned({"stress_component"})
    /\ call.args.ClassSize = F(60)
    /\ call.args.Workload = F(-20)
    /\ call.ret.value.ClassSize = F(0)
    /\ call.ret.value.Workload = F(100)
    /\ call.ret.value.Attendance = F(95)

\* stores to compare a call's result against
BaselineStores ==
    {EmptyStore, AppConfig(EmptyStore),
     InputHasil(AppConfig(EmptyStore), SliderDefault).store}

\* C8: a call of perf_component, stress_component, weighted_score,
\* traffic_light or build_recommendation leaves st.session_state and its
\* arguments unchanged, and what it returns or raises is the same in any
\* session state.
C8_CoreIsPure ==
    call.status = "returned" =>
        /\ session_state = call.store_before
        /\ call.args_after = call.args
        /\ \A s \in BaselineStores : CoreCall(call.fn, call.args, s).ret = call.ret

C8_Witness ==
    /\ Returned({"build_recommendation"})
    /\ session_state["sspi_data"] # None
    /\ session_state["sspi_data"].vals # call.args
    /\ call.ret.value = <<"kelas">>

FullEvaluation == <<"radar", "bar", "sensitivity", "saran", "references", "footer">>

\* C9: a run of "Evaluasi & Saran" renders the evaluation only if an earlier
\* run of "Input & Hasil" stored sspi_data, and then with the values the
\* latest such run stored; otherwise it shows the notice and nothing after it.
C9_EvaluationNeedsInput ==
    page.section = "Evaluasi & Saran" =>
        IF hist = None
        THEN page.rendered = <<"info">>
        ELSE /\ page.rendered = FullEvaluation
             /\ page.vals = ValsOf(hist.sliders)
             /\ page.perf = perf_component(ValsOf(hist.sliders))
             /\ page.stress = stress_component(ValsOf(hist.sliders))
             /\ page.paragraph = build_recommendation(ValsOf(hist.sliders))

C9_Witness ==
    /\ page.section = "Evaluasi & Saran"
    /\ hist # None
    /\ hist.sliders # SliderDefault
    /\ page.rendered = FullEvaluation
    /\ page.vals.Workload = F(100)

\* C10: sspi_data is None, or a record whose perf and stress are the
\* sub-scores of its vals, whose perf_score and stress_score are their
\* averages over the six indicators and whose overall is the smaller of the
\* two; a run of "Evaluasi & Saran" leaves it as the latest "Input & Hasil"
\* run stored it.
C10_StoredRecordConsistent ==
    LET d == get(session_state, "sspi_data")
    IN  d # None =>
            /\ d.perf = perf_component(d.vals)
            /\ d.stress = stress_component(d.vals)
            /\ d.perf_score.num * 6 = d.perf_score.den * py_sum(d.perf, Keys)
            /\ d.stress_score.num * 6 = d.stress_score.den * py_sum(d.stress, Keys)
            /\ d.overall \in {d.perf_score, d.stress_score}
            /\ ~RatLess(d.perf_score, d.overall)
            /\ ~RatLess(d.stress_score, d.overall)
            /\ hist # None
            /\ d.vals = ValsOf(hist.sliders)

C10_Witness ==
    /\ page.section = "Evaluasi & Saran"
    /\ get(session_state, "sspi_data") # None
    /\ page.factor = "Ukuran Kelas"
    /\ Len(page.perf_list) = 31
    /\ session_state["sspi_data"].vals.ClassSize = F(45)

====
